---- MODULE Spec2Model ----
(***************************************************************************)
(* Model of the live community update stream of the glass-scribe-verse     *)
(* backend (app/routers/communities.py, stream_community_updates) and of   *)
(* the request handlers that mutate the collections the stream polls:      *)
(* db.posts, db.user_presence, db.communities, db.users and                *)
(* db.typing_indicators.  Every await on the data store and every yield of *)
(* the generator is one atomic step; the handlers of different requests    *)
(* interleave at those points.                                             *)
(***************************************************************************)
EXTENDS Integers, Sequences, FiniteSets, TLC

\* ------------------------------------------------------------------ bounds
MaxTime == 3        \* the clock datetime.utcnow() runs over 0..MaxTime
MaxTypingTime == 4  \* the same clock, where only the typing registry runs
MaxPosts == 3       \* posts created over one run, more than one query returns
MaxStreamPosts == 2 \* posts created where the connection is scoped or not
MaxCycleTime == 2   \* the same clock, where messages and presence change together
MaxCyclePosts == 1  \* posts created where messages and presence change together
MaxCycles == 2      \* poll cycles of the connection
MaxPending == 1     \* join / leave requests between their checks and their write
MaxConcurrent == 3  \* the same, where requests of one user run concurrently
MaxDrift == 1       \* distance of member_count from the size of members
MessageLimit == 2   \* ceiling of the message query, to_list(50), scaled down
MaxReads == 2       \* Get presence requests of one user between find_one and insert_one

\* ------------------------------------------------------- program constants
PollInterval == 2   \* asyncio.sleep(2)
TypingTTL == 3      \* timedelta(seconds=3)
SecondsPerMinute == 60  \* format_timestamp: diff.seconds > 60

\* --------------------------------------------------------------- universes
UserIds == {"u1", "u2", "u3"}
CreatorId == "u1"
Channels == {"ch1", "ch2"}
GeneralChannel == "ch1"
NoChannel == "none"
NoCursor == -1
NoTime == -1
CommunityId == "c1"
\* community ids a client can send: the community, a well-formed id of no
\* community, a malformed id
CommunityIds == {"c1", "c2", "bad"}
IsValidObjectId(id) == id \in {"c1", "c2"}

\* PresenceStatus
Statuses == {"online", "offline", "away", "dnd"}

NoRecord == [status |-> "absent", last_seen |-> NoTime, updated_at |-> NoTime]

\* no Set presence / Get presence response yet
NoResponse ==
    [op |-> "none", caller |-> "none", user |-> "none", code |-> 0,
     status |-> "none", last_seen |-> "none", updated_at |-> "none"]

\* no community presence summary response yet
NoSummary ==
    [community |-> "none", caller |-> "none", code |-> 0, presences |-> <<>>,
     online_count |-> 0, total_count |-> 0]

Min(a, b) == IF a < b THEN a ELSE b

Range(s) == {s[i] : i \in DOMAIN s}

VARIABLES
    now,                \* datetime.utcnow()
    users,              \* db.users: ids that have a user record
    community_exists,   \* db.communities holds the document of CommunityId
    members,            \* its "members" array
    member_count,       \* its "member_count"
    channels,           \* db.channels of the community
    posts,              \* db.posts
    inflight,           \* posts stamped with created_at, insert_one not yet applied
    next_post_id,       \* next ObjectId() of a post
    user_presence,      \* db.user_presence, by user id
    typing_indicators,  \* db.typing_indicators
    join_pending,       \* join requests past their checks, update_one not yet applied
    leave_pending,      \* leave requests past their checks
    delete_pc,          \* position of delete_user, per user
    pc,                 \* position of the stream request / generator
    response,           \* HTTP outcome of the stream request
    community_id,       \* stream request: path parameter
    channel_id,         \* stream request: query parameter
    after,              \* stream request: query parameter
    x_user_id,          \* stream request: header
    last_check,         \* generator local
    current_community,  \* generator local: members of the document it holds
    updated_community,  \* generator local, members of the re-read document
    new_messages,       \* generator local: messages still to emit
    presence_updates,   \* generator local: presence records still to emit
    new_members,        \* generator local: joins still to emit
    left_members,       \* generator local: leaves still to emit
    overflow,           \* results of the message queries beyond the ceiling
    cycle,              \* number of the running iteration of the while loop
    wake_at,            \* earliest time asyncio.sleep(2) returns
    events,             \* everything the generator has yielded, in order
    presence_result,    \* last response of Set presence / Get presence
    presence_set,       \* users for whom Set presence has written
    presence_extra,     \* db.user_presence: per user, the updated_at of the records
                        \* inserted after the one find_one returns
    get_pending,        \* Get presence requests between find_one and insert_one:
                        \* per user, the utcnow() of their default records
    presence_summary,   \* last response of the community presence summary
    gone_at,            \* heartbeats emitted when the channel of the stream was deleted
    returned,           \* users whose membership changed and changed back since the
                        \* generator last read the community document
    churned,            \* the same users, as of the last re-read of the document
    typing_req,         \* List typing request between its purge and its find
    typing_result       \* last List typing response

storeVars == <<users, community_exists, members, member_count, channels,
               user_presence, join_pending, leave_pending, delete_pc>>
postVars == <<posts, inflight, next_post_id>>
readVars == <<presence_extra, get_pending, presence_summary>>
presenceVars == <<presence_result, presence_set, readVars>>
ghostVars == <<gone_at, returned, churned>>
typingVars == <<typing_indicators, typing_req, typing_result>>
requestVars == <<response, community_id, channel_id, after, x_user_id>>
localVars == <<last_check, current_community, updated_community, new_messages,
               presence_updates, new_members, left_members, overflow, cycle,
               wake_at>>
streamVars == <<pc, requestVars, localVars, events>>
vars == <<now, storeVars, postVars, presenceVars, ghostVars, typingVars, streamVars>>

\* ------------------------------------------------------------------- Init
Init ==
    /\ now = 0
    /\ users = UserIds
    /\ community_exists = TRUE
    /\ members = {"u1", "u2"}
    /\ member_count = 2
    /\ channels = Channels
    /\ posts = {}
    /\ inflight = {}
    /\ next_post_id = 1
    /\ user_presence = [u \in UserIds |-> NoRecord]
    /\ typing_indicators = {}
    /\ join_pending = [u \in UserIds |-> 0]
    /\ leave_pending = [u \in UserIds |-> 0]
    /\ delete_pc = [u \in UserIds |-> "idle"]
    /\ pc = "idle"
    /\ response = "none"
    /\ community_id = "none"
    /\ channel_id = NoChannel
    /\ after = NoCursor
    /\ x_user_id = "none"
    /\ last_check = NoTime
    /\ current_community = {}
    /\ updated_community = {}
    /\ new_messages = <<>>
    /\ presence_updates = {}
    /\ new_members = {}
    /\ left_members = {}
    /\ overflow = {}
    /\ cycle = 0
    /\ wake_at = 0
    /\ events = <<>>
    /\ presence_result = NoResponse
    /\ presence_set = {}
    /\ presence_extra = [u \in UserIds |-> <<>>]
    /\ get_pending = [u \in UserIds |-> <<>>]
    /\ presence_summary = NoSummary
    /\ gone_at = NoTime
    /\ returned = {}
    /\ churned = {}
    /\ typing_req = [caller |-> "none", channel |-> NoChannel]
    /\ typing_result = [caller |-> "none", channel |-> NoChannel, at |-> NoTime,
                        records |-> {}]

\* ------------------------------------------------------------------ clock
Tick(limit) ==
    /\ now < limit
    /\ now' = now + 1
    /\ UNCHANGED <<storeVars, postVars, presenceVars, ghostVars, typingVars, streamVars>>

\* --------------------------------------------------------------- messages
\* create_channel_message up to the stamping of created_at: the checks, then
\* the document with _id = ObjectId() and created_at = utcnow()
SendMessage(u, ch) ==
    /\ next_post_id <= MaxPosts
    /\ community_exists
    /\ u \in members
    /\ ch \in channels
    /\ u \in users
    /\ inflight' = inflight \cup
           {[id |-> next_post_id, created_at |-> now, channel_id |-> ch,
             author_id |-> u]}
    /\ next_post_id' = next_post_id + 1
    /\ UNCHANGED <<now, storeVars, posts, presenceVars, ghostVars, typingVars, streamVars>>

\* create_channel_message: await db.posts.insert_one(message_dict)
InsertPost ==
    /\ \E p \in inflight :
        /\ inflight' = inflight \ {p}
        /\ posts' = posts \cup {p}
    /\ UNCHANGED <<now, storeVars, next_post_id, presenceVars, ghostVars, typingVars, streamVars>>

\* the $set of update_user_presence on the record old (NoRecord when the upsert
\* inserts): status and updated_at always, last_seen when the status is online
PresenceAfterSet(old, s, t) ==
    [status |-> s,
     last_seen |-> IF s = "online" THEN t ELSE old.last_seen,
     updated_at |-> t]

\* format_timestamp at the time of the response
format_timestamp(dt) ==
    IF now - dt > SecondsPerMinute THEN "minutes ago" ELSE "Just now"

\* the response of a request that raised HTTPException(code)
ErrorResponse(op, caller, u, code) ==
    [op |-> op, caller |-> caller, user |-> u, code |-> code, status |-> "none",
     last_seen |-> "none", updated_at |-> "none"]

\* the PresenceResponse built from a record: presence["last_seen"] raises
\* KeyError on a record without the field, the request fails with 500; the
\* caller is the x_user_id of Set presence, Get presence has none
PresenceResponse(op, u, rec) ==
    LET caller == IF op = "set" THEN u ELSE "none" IN
    IF rec.last_seen = NoTime
    THEN ErrorResponse(op, caller, u, 500)
    ELSE [op |-> op, caller |-> caller, user |-> u, code |-> 200,
          status |-> rec.status,
          last_seen |-> format_timestamp(rec.last_seen),
          updated_at |-> format_timestamp(rec.updated_at)]

\* the read-through default of get_user_presence
DefaultPresence(t) == [status |-> "offline", last_seen |-> t, updated_at |-> t]

\* update_user_presence by the owner: the upsert of status, custom_message,
\* updated_at, and of last_seen only when the status is online; the response
\* is the one of get_user_presence on the record just written
SetPresence(u, s) ==
    /\ u \in users
    /\ user_presence' =
           [user_presence EXCEPT ![u] = PresenceAfterSet(user_presence[u], s, now)]
    /\ presence_result' =
           PresenceResponse("set", u, PresenceAfterSet(user_presence[u], s, now))
    /\ presence_set' = presence_set \cup {u}
    /\ UNCHANGED <<now, users, community_exists, members, member_count, channels,
                   join_pending, leave_pending, delete_pc, postVars, readVars, ghostVars, typingVars,
                   streamVars>>

\* the handler without the comparison of the caller with the user
update_user_presence_NoOwnerCheck(caller, u, s) ==
    IF caller = ""
    THEN /\ presence_result' = ErrorResponse("set", caller, u, 400)
         /\ UNCHANGED <<now, storeVars, postVars, presence_set, readVars, ghostVars,
                        typingVars, streamVars>>
    ELSE IF u \notin users
    THEN /\ presence_result' = ErrorResponse("set", caller, u, 404)
         /\ UNCHANGED <<now, storeVars, postVars, presence_set, readVars, ghostVars,
                        typingVars, streamVars>>
    ELSE /\ user_presence' =
                [user_presence EXCEPT ![u] = PresenceAfterSet(user_presence[u], s, now)]
         /\ presence_result' =
                [PresenceResponse("set", u, PresenceAfterSet(user_presence[u], s, now))
                    EXCEPT !.caller = caller]
         /\ presence_set' = presence_set \cup {u}
         /\ UNCHANGED <<now, users, community_exists, members, member_count,
                        channels, join_pending, leave_pending, delete_pc, postVars,
                        readVars, ghostVars, typingVars, streamVars>>

\* update_user_presence with any caller: the header check, the user lookup,
\* the comparison of the caller with the user, then the upsert and response
update_user_presence(caller, u, s) ==
    IF caller = ""
    THEN /\ presence_result' = ErrorResponse("set", caller, u, 400)
         /\ UNCHANGED <<now, storeVars, postVars, presence_set, readVars, ghostVars,
                        typingVars, streamVars>>
    ELSE IF u \notin users
    THEN /\ presence_result' = ErrorResponse("set", caller, u, 404)
         /\ UNCHANGED <<now, storeVars, postVars, presence_set, readVars, ghostVars,
                        typingVars, streamVars>>
    ELSE IF u # caller
    THEN /\ presence_result' = ErrorResponse("set", caller, u, 403)
         /\ UNCHANGED <<now, storeVars, postVars, presence_set, readVars, ghostVars,
                        typingVars, streamVars>>
    ELSE SetPresence(u, s)

\* get_user_presence: the record, or the default offline record, which it
\* inserts
GetPresence(u) ==
    /\ u \in users
    /\ LET rec == IF user_presence[u] = NoRecord
                  THEN DefaultPresence(now) ELSE user_presence[u]
       IN  /\ user_presence' = [user_presence EXCEPT ![u] = rec]
           /\ presence_result' = PresenceResponse("get", u, rec)
    /\ UNCHANGED <<now, users, community_exists, members, member_count, channels,
                   join_pending, leave_pending, delete_pc, postVars, presence_set,
                   readVars, ghostVars, typingVars, streamVars>>

\* the sequence s without its element at position i
RemoveAt(s, i) == SubSeq(s, 1, i - 1) \o SubSeq(s, i + 1, Len(s))

\* get_user_presence up to the await of its insert_one: the user lookup and
\* find_one on user_presence; the record found is the response, else the
\* default record is built with utcnow() and its insert is awaited
GetPresenceFind(u) ==
    /\ u \in users
    /\ IF user_presence[u] # NoRecord
       THEN /\ presence_result' = PresenceResponse("get", u, user_presence[u])
            /\ UNCHANGED get_pending
       ELSE /\ get_pending' = [get_pending EXCEPT ![u] = Append(@, now)]
            /\ UNCHANGED presence_result
    /\ UNCHANGED <<now, storeVars, postVars, presence_set, presence_extra,
                   presence_summary, ghostVars, typingVars, streamVars>>

\* get_user_presence: insert_one(default_presence) and the response built
\* from the default record; the collection has no unique index on user_id, so
\* the insert adds a record whatever the collection holds by then
GetPresenceInsert(u) ==
    /\ \E i \in DOMAIN get_pending[u] :
        LET t == get_pending[u][i] IN
        /\ get_pending' = [get_pending EXCEPT ![u] = RemoveAt(@, i)]
        /\ IF user_presence[u] = NoRecord
           THEN /\ user_presence' = [user_presence EXCEPT ![u] = DefaultPresence(t)]
                /\ UNCHANGED presence_extra
           ELSE /\ presence_extra' = [presence_extra EXCEPT ![u] = Append(@, t)]
                /\ UNCHANGED user_presence
        /\ presence_result' = PresenceResponse("get", u, DefaultPresence(t))
    /\ UNCHANGED <<now, users, community_exists, members, member_count, channels,
                   join_pending, leave_pending, delete_pc, postVars, presence_set,
                   presence_summary, ghostVars, typingVars, streamVars>>

\* the records of user_presence the find of the summary returns for a member,
\* in the order of their insertion
PresenceDocs(u) ==
    (IF user_presence[u] = NoRecord THEN <<>> ELSE <<user_presence[u]>>) \o
    [i \in DOMAIN presence_extra[u] |-> DefaultPresence(presence_extra[u][i])]

\* get_community_presence: the three checks, then the loop over the presence
\* records of the members (online_count, an entry of the map per record, the
\* later record of a user replacing the earlier; presence["last_seen"] raises
\* KeyError), the offline entry for members without a record, the counts
get_community_presence(cid, caller) ==
    /\ presence_summary' =
           IF ~IsValidObjectId(cid)
           THEN [NoSummary EXCEPT !.community = cid, !.caller = caller, !.code = 400]
           ELSE IF ~(cid = CommunityId /\ community_exists)
           THEN [NoSummary EXCEPT !.community = cid, !.caller = caller, !.code = 404]
           ELSE IF caller \notin members
           THEN [NoSummary EXCEPT !.community = cid, !.caller = caller, !.code = 403]
           ELSE IF \E u \in members : \E i \in DOMAIN PresenceDocs(u) :
                       PresenceDocs(u)[i].last_seen = NoTime
           THEN [NoSummary EXCEPT !.community = cid, !.caller = caller, !.code = 500]
           ELSE [community |-> cid, caller |-> caller, code |-> 200,
                 presences |->
                     [u \in members |->
                         IF PresenceDocs(u) = <<>> THEN "offline"
                         ELSE PresenceDocs(u)[Len(PresenceDocs(u))].status],
                 online_count |->
                     Cardinality({<<u, i>> \in members \X (1..(MaxReads + 2)) :
                                     /\ i \in DOMAIN PresenceDocs(u)
                                     /\ PresenceDocs(u)[i].status = "online"}),
                 total_count |-> Cardinality(members)]
    /\ UNCHANGED <<now, storeVars, postVars, presence_result, presence_set,
                   presence_extra, get_pending, ghostVars, typingVars, streamVars>>

\* the join and leave requests that passed their checks and have not written
PendingRequests ==
    LET S[U \in SUBSET UserIds] ==
            IF U = {} THEN 0
            ELSE LET u == CHOOSE x \in U : TRUE
                 IN  join_pending[u] + leave_pending[u] + S[U \ {u}]
    IN  S[UserIds]

\* a further join or leave request may start: fewer than limit are between
\* their checks and their write, and member_count is near the size of members
MayRequest(limit) ==
    /\ PendingRequests < limit
    /\ member_count - Cardinality(members) < MaxDrift
    /\ Cardinality(members) - member_count < MaxDrift

\* the members of the community document as the generator last read it: at
\* the open, or at the re-read of the running cycle
LastRead == IF pc = "emit_members" THEN updated_community ELSE current_community

\* returned after an update that leaves the member set m: on an open stream, a
\* user whose membership is again as last read has changed and changed back
ReturnedAfter(u, m) ==
    IF pc \in {"idle", "rejected", "done"} \/ m = members THEN returned
    ELSE IF (u \in m) <=> (u \in LastRead) THEN returned \cup {u}
    ELSE returned \ {u}

\* ------------------------------------------------------------- membership
\* join_community up to its update: user found, community found, not a member
JoinCheck(u) ==
    /\ u \in users
    /\ community_exists
    /\ u \notin members
    /\ join_pending' = [join_pending EXCEPT ![u] = @ + 1]
    /\ UNCHANGED <<now, users, community_exists, members, member_count, channels,
                   user_presence, leave_pending, delete_pc, postVars, presenceVars, ghostVars, typingVars,
                   streamVars>>

\* join_community_by_invite up to its update: user found, an active invite of
\* the community found (invites are not part of the state kept here), community
\* found, not a member yet; its update_one is the one of join_community
JoinByInviteCheck(u) ==
    /\ u \in users
    /\ community_exists
    /\ u \notin members
    /\ join_pending' = [join_pending EXCEPT ![u] = @ + 1]
    /\ UNCHANGED <<now, users, community_exists, members, member_count, channels,
                   user_presence, leave_pending, delete_pc, postVars, presenceVars, ghostVars, typingVars,
                   streamVars>>

\* join_community: $addToSet members, $inc member_count 1 (one update_one; it
\* matches nothing when the document is gone)
JoinUpdate(u) ==
    /\ join_pending[u] > 0
    /\ join_pending' = [join_pending EXCEPT ![u] = @ - 1]
    /\ members' = IF community_exists THEN members \cup {u} ELSE members
    /\ member_count' = IF community_exists THEN member_count + 1 ELSE member_count
    /\ returned' = ReturnedAfter(u, IF community_exists THEN members \cup {u} ELSE members)
    /\ UNCHANGED <<now, users, community_exists, channels, user_presence,
                   leave_pending, delete_pc, postVars, presenceVars, gone_at, churned,
                   typingVars, streamVars>>

\* leave_community up to its update: community found, a member, not the creator
LeaveCheck(u) ==
    /\ community_exists
    /\ u \in members
    /\ u # CreatorId
    /\ leave_pending' = [leave_pending EXCEPT ![u] = @ + 1]
    /\ UNCHANGED <<now, users, community_exists, members, member_count, channels,
                   user_presence, join_pending, delete_pc, postVars, presenceVars, ghostVars, typingVars,
                   streamVars>>

\* leave_community: $pull members, $inc member_count -1
LeaveUpdate(u) ==
    /\ leave_pending[u] > 0
    /\ leave_pending' = [leave_pending EXCEPT ![u] = @ - 1]
    /\ members' = IF community_exists THEN members \ {u} ELSE members
    /\ member_count' = IF community_exists THEN member_count - 1 ELSE member_count
    /\ returned' = ReturnedAfter(u, IF community_exists THEN members \ {u} ELSE members)
    /\ UNCHANGED <<now, users, community_exists, channels, user_presence,
                   join_pending, delete_pc, postVars, presenceVars, gone_at, churned,
                   typingVars, streamVars>>

\* delete_community: community found, the caller its creator, delete_one of
\* the document (and delete_many on community_posts, a collection the channel
\* messages are not in)
DeleteCommunity(u) ==
    /\ community_exists
    /\ u = CreatorId
    /\ community_exists' = FALSE
    /\ UNCHANGED <<now, users, members, member_count, channels, user_presence,
                   join_pending, leave_pending, delete_pc, postVars, presenceVars,
                   ghostVars, typingVars, streamVars>>

\* the heartbeat events emitted so far
Heartbeats == Cardinality({i \in DOMAIN events : events[i].type = "heartbeat"})

\* delete_channel: community found, the caller its creator, channel found and
\* not the general one; delete_one of the channel, delete_many of its posts
DeleteChannel(u, ch) ==
    /\ community_exists
    /\ u = CreatorId
    /\ ch \in channels
    /\ ch # GeneralChannel
    /\ channels' = channels \ {ch}
    /\ posts' = {p \in posts : p.channel_id # ch}
    /\ gone_at' = IF pc \notin {"idle", "rejected", "done"} /\ channel_id = ch
                  THEN Heartbeats ELSE gone_at
    /\ UNCHANGED <<now, users, community_exists, members, member_count,
                   user_presence, join_pending, leave_pending, delete_pc, inflight,
                   next_post_id, presenceVars, returned, churned, typingVars,
                   streamVars>>

\* delete_user by the user: db.users.delete_one
DeleteUserRecord(u) ==
    /\ delete_pc[u] = "idle"
    /\ u \in users
    /\ users' = users \ {u}
    /\ delete_pc' = [delete_pc EXCEPT ![u] = "pull"]
    /\ UNCHANGED <<now, community_exists, members, member_count, channels,
                   user_presence, join_pending, leave_pending, postVars,
                   presenceVars, ghostVars, typingVars, streamVars>>

\* delete_user: update_many({"members": id}, $pull members, $inc member_count -1)
DeleteUserPull(u) ==
    /\ delete_pc[u] = "pull"
    /\ delete_pc' = [delete_pc EXCEPT ![u] = "owned"]
    /\ members' = members \ {u}
    /\ member_count' = IF community_exists /\ u \in members
                       THEN member_count - 1 ELSE member_count
    /\ returned' = ReturnedAfter(u, members \ {u})
    /\ UNCHANGED <<now, users, community_exists, channels, user_presence,
                   join_pending, leave_pending, postVars, presenceVars, gone_at,
                   churned, typingVars, streamVars>>

\* delete_user: the communities the user created are deleted
DeleteUserOwned(u) ==
    /\ delete_pc[u] = "owned"
    /\ delete_pc' = [delete_pc EXCEPT ![u] = "done"]
    /\ community_exists' = IF u = CreatorId THEN FALSE ELSE community_exists
    /\ UNCHANGED <<now, users, members, member_count, channels, user_presence,
                   join_pending, leave_pending, postVars, presenceVars, ghostVars, typingVars, streamVars>>

\* ------------------------------------------------------------ the stream
\* `after and ObjectId.is_valid(after)`
IsValidCursor(a) == a >= 0

\* an SSEEvent: its type, and of its data the message id, the user id, the
\* author name or status, and the time the event is about
Event(type, ref, user, name, at) ==
    [type |-> type, ref |-> ref, user |-> user, name |-> name, cycle |-> cycle,
     at |-> at]

\* the request without its membership check
StreamOpen_NoMemberCheck(cid, ch, aft, u) ==
    /\ pc = "idle"
    /\ community_id' = cid
    /\ channel_id' = ch
    /\ after' = aft
    /\ x_user_id' = u
    /\ IF ~IsValidObjectId(cid)
       THEN /\ response' = "400"
            /\ pc' = "rejected"
            /\ UNCHANGED current_community
       ELSE IF ~(cid = CommunityId /\ community_exists)
       THEN /\ response' = "404"
            /\ pc' = "rejected"
            /\ UNCHANGED current_community
       ELSE /\ response' = "stream"
            /\ pc' = "start"
            /\ current_community' = members
    /\ returned' = {}
    /\ UNCHANGED <<now, storeVars, postVars, presenceVars, gone_at, churned,
                   typingVars, last_check, updated_community, new_messages,
                   presence_updates, new_members, left_members, overflow, cycle,
                   wake_at, events>>

\* stream_community_updates up to the StreamingResponse: the three checks
StreamOpen(cid, ch, aft, u) ==
    /\ pc = "idle"
    /\ community_id' = cid
    /\ channel_id' = ch
    /\ after' = aft
    /\ x_user_id' = u
    /\ IF ~IsValidObjectId(cid)
       THEN /\ response' = "400"
            /\ pc' = "rejected"
            /\ UNCHANGED current_community
       ELSE IF ~(cid = CommunityId /\ community_exists)
       THEN /\ response' = "404"
            /\ pc' = "rejected"
            /\ UNCHANGED current_community
       ELSE IF u \notin members
       THEN /\ response' = "403"
            /\ pc' = "rejected"
            /\ UNCHANGED current_community
       ELSE /\ response' = "stream"
            /\ pc' = "start"
            /\ current_community' = members
    /\ returned' = {}
    /\ UNCHANGED <<now, storeVars, postVars, presenceVars, gone_at, churned,
                   typingVars, last_check, updated_community, new_messages,
                   presence_updates, new_members, left_members, overflow, cycle,
                   wake_at, events>>

\* the generator that starts polling without the connected event
StreamStart_NoConnected ==
    /\ pc = "start"
    /\ last_check' = now
    /\ pc' = "query_messages"
    /\ UNCHANGED <<now, storeVars, postVars, presenceVars, ghostVars, typingVars,
                   requestVars, current_community, updated_community, new_messages,
                   presence_updates, new_members, left_members, overflow, cycle,
                   wake_at, events>>

\* event_generator up to its first yield: last_check and the connected event
StreamStart ==
    /\ pc = "start"
    /\ last_check' = now
    /\ events' = Append(events, Event("message", 0, "", "connected", now))
    /\ pc' = "query_messages"
    /\ UNCHANGED <<now, storeVars, postVars, presenceVars, ghostVars, typingVars, requestVars,
                   current_community, updated_community, new_messages,
                   presence_updates, new_members, left_members, overflow, cycle,
                   wake_at>>

\* the filter with created_at >= last_check
MatchesFilter_Inclusive(p) ==
    /\ p.created_at >= last_check
    /\ (channel_id # NoChannel => p.channel_id = channel_id)
    /\ (IsValidCursor(after) => p.id > after)

\* filter_query of the message query
MatchesFilter(p) ==
    /\ p.created_at > last_check
    /\ (channel_id # NoChannel => p.channel_id = channel_id)
    /\ (IsValidCursor(after) => p.id > after)

\* the sort descending, .sort("created_at", -1)
SortedByCreatedAt_Descending(s) ==
    \A i \in 1..(Len(s) - 1) : s[i].created_at >= s[i + 1].created_at

\* .sort("created_at", 1)
SortedByCreatedAt(s) ==
    \A i \in 1..(Len(s) - 1) : s[i].created_at <= s[i + 1].created_at

\* find(filter).sort("created_at", 1).to_list(limit): the first `limit`
\* documents of some order of the matches that ascends in created_at
FindSorted(matches, limit) ==
    LET n == Min(Cardinality(matches), limit) IN
    {s \in [1..n -> matches] :
        /\ \A i, j \in 1..n : i # j => s[i] # s[j]
        /\ SortedByCreatedAt(s)
        /\ \A p \in matches \ Range(s) :
               \A i \in 1..n : s[i].created_at <= p.created_at}

\* the cycle that checks the membership of the caller again before its query
\* and raises when the caller is no longer a member
StreamQueryMessages_MembersOnly ==
    /\ pc = "query_messages"
    /\ cycle < MaxCycles
    /\ cycle' = cycle + 1
    /\ IF x_user_id \notin members
       THEN /\ pc' = "except"
            /\ UNCHANGED <<new_messages, overflow>>
       ELSE /\ LET matches == {p \in posts : MatchesFilter(p)} IN
               \E s \in FindSorted(matches, MessageLimit) :
                   /\ new_messages' = s
                   /\ overflow' = overflow \cup
                          {[post |-> p, cycle |-> cycle + 1] : p \in matches \ Range(s)}
            /\ pc' = "emit_messages"
    /\ UNCHANGED <<now, storeVars, postVars, presenceVars, ghostVars, typingVars, requestVars, last_check,
                   current_community, updated_community, presence_updates,
                   new_members, left_members, wake_at, events>>

\* one iteration of the while loop begins: the message query
StreamQueryMessages ==
    /\ pc = "query_messages"
    /\ cycle < MaxCycles
    /\ cycle' = cycle + 1
    /\ LET matches == {p \in posts : MatchesFilter(p)} IN
       \E s \in FindSorted(matches, MessageLimit) :
           /\ new_messages' = s
           /\ overflow' = overflow \cup
                  {[post |-> p, cycle |-> cycle + 1] : p \in matches \ Range(s)}
    /\ pc' = "emit_messages"
    /\ UNCHANGED <<now, storeVars, postVars, presenceVars, ghostVars, typingVars, requestVars, last_check,
                   current_community, updated_community, presence_updates,
                   new_members, left_members, wake_at, events>>

\* author_info of a message
AuthorName(author_id) == IF author_id \in users THEN "known" ELSE "Unknown User"

\* the author lookup that raises when it finds no user record
StreamEmitMessage_AbortUnknown ==
    /\ pc = "emit_messages"
    /\ new_messages # <<>>
    /\ LET m == Head(new_messages) IN
       IF m.author_id \in users
       THEN /\ events' = Append(events,
                             Event("message", m.id, m.author_id,
                                   AuthorName(m.author_id), m.created_at))
            /\ new_messages' = Tail(new_messages)
            /\ UNCHANGED pc
       ELSE /\ pc' = "except"
            /\ UNCHANGED <<events, new_messages>>
    /\ UNCHANGED <<now, storeVars, postVars, presenceVars, ghostVars, typingVars,
                   requestVars, last_check, current_community, updated_community,
                   presence_updates, new_members, left_members, overflow, cycle,
                   wake_at>>

\* for message in new_messages: the author lookup and the yield
StreamEmitMessage ==
    /\ pc = "emit_messages"
    /\ new_messages # <<>>
    /\ LET m == Head(new_messages) IN
       events' = Append(events,
                     Event("message", m.id, m.author_id, AuthorName(m.author_id),
                           m.created_at))
    /\ new_messages' = Tail(new_messages)
    /\ UNCHANGED <<now, storeVars, postVars, presenceVars, ghostVars, typingVars, pc, requestVars,
                   last_check, current_community, updated_community,
                   presence_updates, new_members, left_members, overflow, cycle,
                   wake_at>>

\* the presence query: records of the members of current_community with
\* updated_at > last_check
PresenceQuery ==
    {[user_id |-> u, status |-> user_presence[u].status,
      last_seen |-> user_presence[u].last_seen,
      updated_at |-> user_presence[u].updated_at] :
        u \in {v \in current_community :
                 /\ user_presence[v] # NoRecord
                 /\ user_presence[v].updated_at > last_check}}
    \cup
    UNION {{[user_id |-> u, status |-> DefaultPresence(t).status,
             last_seen |-> t, updated_at |-> t] :
               t \in {x \in Range(presence_extra[u]) : x > last_check}} :
           u \in current_community}

StreamQueryPresence ==
    /\ pc = "emit_messages"
    /\ new_messages = <<>>
    /\ presence_updates' = PresenceQuery
    /\ pc' = "emit_presence"
    /\ UNCHANGED <<now, storeVars, postVars, presenceVars, ghostVars, typingVars, requestVars, last_check,
                   current_community, updated_community, new_messages,
                   new_members, left_members, overflow, cycle, wake_at, events>>

\* for presence in presence_updates: presence["last_seen"] raises KeyError
\* when the record has no such field
StreamEmitPresence ==
    /\ pc = "emit_presence"
    /\ \E r \in presence_updates :
        /\ presence_updates' = presence_updates \ {r}
        /\ IF r.last_seen = NoTime
           THEN /\ pc' = "except"
                /\ UNCHANGED events
           ELSE /\ events' = Append(events,
                                 Event("presence", 0, r.user_id, r.status,
                                       r.updated_at))
                /\ UNCHANGED pc
    /\ UNCHANGED <<now, storeVars, postVars, presenceVars, ghostVars, typingVars, requestVars, last_check,
                   current_community, updated_community, new_messages,
                   new_members, left_members, overflow, cycle, wake_at>>

\* the joins taken against no snapshot: every current member is new
MembershipDelta_NoSnapshot(previous, current) ==
    [joined |-> current, left |-> previous \ current]

\* the two differences taken the wrong way round
MembershipDelta_Swapped(previous, current) ==
    [joined |-> previous \ current, left |-> current \ previous]

\* new_members = current_members - previous_members,
\* left_members = previous_members - current_members
MembershipDelta(previous, current) ==
    [joined |-> current \ previous, left |-> previous \ current]

\* the re-read guarded by `if updated_community`: a community that is gone is
\* taken as unchanged
StreamReadCommunity_IgnoreMissing ==
    /\ pc = "emit_presence"
    /\ presence_updates = {}
    /\ IF ~community_exists
       THEN /\ updated_community' = current_community
            /\ new_members' = {}
            /\ left_members' = {}
            /\ pc' = "emit_members"
            /\ UNCHANGED <<returned, churned>>
       ELSE /\ updated_community' = members
            /\ new_members' = MembershipDelta(current_community, members).joined
            /\ left_members' = MembershipDelta(current_community, members).left
            /\ pc' = "emit_members"
            /\ churned' = returned
            /\ returned' = {}
    /\ UNCHANGED <<now, storeVars, postVars, presenceVars, gone_at, typingVars, requestVars,
                   last_check, current_community, new_messages, presence_updates,
                   overflow, cycle, wake_at, events>>

\* the re-read of the community document; updated_community.get raises
\* AttributeError when find_one returned None
StreamReadCommunity ==
    /\ pc = "emit_presence"
    /\ presence_updates = {}
    /\ IF ~community_exists
       THEN /\ pc' = "except"
            /\ UNCHANGED <<updated_community, new_members, left_members, returned,
                           churned>>
       ELSE /\ updated_community' = members
            /\ new_members' = MembershipDelta(current_community, members).joined
            /\ left_members' = MembershipDelta(current_community, members).left
            /\ pc' = "emit_members"
            /\ churned' = returned
            /\ returned' = {}
    /\ UNCHANGED <<now, storeVars, postVars, presenceVars, gone_at, typingVars, requestVars, last_check,
                   current_community, new_messages, presence_updates, overflow,
                   cycle, wake_at, events>>

\* for new_member_id in new_members: the user lookup, the yield `if user`
StreamEmitJoin ==
    /\ pc = "emit_members"
    /\ \E m \in new_members :
        /\ new_members' = new_members \ {m}
        /\ events' = IF m \in users
                     THEN Append(events, Event("user_join", 0, m, "known", NoTime))
                     ELSE events
    /\ UNCHANGED <<now, storeVars, postVars, presenceVars, ghostVars, typingVars, pc, requestVars,
                   last_check, current_community, updated_community,
                   new_messages, presence_updates, left_members, overflow, cycle,
                   wake_at>>

\* for left_member_id in left_members: the yield
StreamEmitLeave ==
    /\ pc = "emit_members"
    /\ new_members = {}
    /\ \E m \in left_members :
        /\ left_members' = left_members \ {m}
        /\ events' = Append(events, Event("user_leave", 0, m, "", NoTime))
    /\ UNCHANGED <<now, storeVars, postVars, presenceVars, ghostVars, typingVars, pc, requestVars,
                   last_check, current_community, updated_community,
                   new_messages, presence_updates, new_members, overflow, cycle,
                   wake_at>>

\* the heartbeat yielded before the loop over left_members
StreamHeartbeat_BeforeLeaves ==
    /\ pc = "emit_members"
    /\ new_members = {}
    /\ IF \E i \in DOMAIN events :
              events[i].type = "heartbeat" /\ events[i].cycle = cycle
       THEN /\ left_members = {}
            /\ UNCHANGED <<current_community, last_check, events, wake_at>>
            /\ pc' = "sleep"
       ELSE /\ current_community' = updated_community
            /\ last_check' = now
            /\ events' = Append(events, Event("heartbeat", 0, "", "", NoTime))
            /\ wake_at' = now + PollInterval
            /\ pc' = IF left_members = {} THEN "sleep" ELSE pc
    /\ UNCHANGED <<now, storeVars, postVars, presenceVars, ghostVars, typingVars, requestVars,
                   updated_community, new_messages, presence_updates,
                   new_members, left_members, overflow, cycle>>

\* the heartbeat left out of a cycle that has emitted an event
StreamHeartbeat_OnlyIfQuiet ==
    /\ pc = "emit_members"
    /\ new_members = {}
    /\ left_members = {}
    /\ current_community' = updated_community
    /\ last_check' = now
    /\ events' = IF \E i \in DOMAIN events : events[i].cycle = cycle
                 THEN events
                 ELSE Append(events, Event("heartbeat", 0, "", "", NoTime))
    /\ wake_at' = now + PollInterval
    /\ pc' = "sleep"
    /\ UNCHANGED <<now, storeVars, postVars, presenceVars, ghostVars, typingVars,
                   requestVars, updated_community, new_messages, presence_updates,
                   new_members, left_members, overflow, cycle>>

\* the checkpoint set back by the poll interval
StreamHeartbeat_Rewind ==
    /\ pc = "emit_members"
    /\ new_members = {}
    /\ left_members = {}
    /\ current_community' = updated_community
    /\ last_check' = now - PollInterval
    /\ events' = Append(events, Event("heartbeat", 0, "", "", NoTime))
    /\ wake_at' = now + PollInterval
    /\ pc' = "sleep"
    /\ UNCHANGED <<now, storeVars, postVars, presenceVars, ghostVars, typingVars,
                   requestVars, updated_community, new_messages, presence_updates,
                   new_members, left_members, overflow, cycle>>

\* current_community = updated_community, last_check = utcnow(), the heartbeat
StreamHeartbeat ==
    /\ pc = "emit_members"
    /\ new_members = {}
    /\ left_members = {}
    /\ current_community' = updated_community
    /\ last_check' = now
    /\ events' = Append(events, Event("heartbeat", 0, "", "", NoTime))
    /\ wake_at' = now + PollInterval
    /\ pc' = "sleep"
    /\ UNCHANGED <<now, storeVars, postVars, presenceVars, ghostVars, typingVars, requestVars,
                   updated_community, new_messages, presence_updates,
                   new_members, left_members, overflow, cycle>>

\* await asyncio.sleep(2) returns
StreamWake ==
    /\ pc = "sleep"
    /\ now >= wake_at
    /\ pc' = "query_messages"
    /\ UNCHANGED <<now, storeVars, postVars, presenceVars, ghostVars, typingVars, requestVars, localVars,
                   events>>

\* a store query of the cycle raises (TransientStoreFailure)
StreamStoreFailure ==
    /\ \/ pc = "query_messages" /\ cycle < MaxCycles
       \/ pc = "emit_messages"
       \/ pc = "emit_presence" /\ presence_updates = {}
       \/ pc = "emit_members" /\ new_members # {}
    /\ cycle' = IF pc = "query_messages" THEN cycle + 1 ELSE cycle
    /\ pc' = "except"
    /\ UNCHANGED <<now, storeVars, postVars, presenceVars, ghostVars, typingVars,
                   requestVars, last_check, current_community, updated_community,
                   new_messages, presence_updates, new_members, left_members,
                   overflow, wake_at, events>>

\* the handler without its break: the loop goes on after the error event
StreamExcept_Retry ==
    /\ pc = "except"
    /\ events' = Append(events, Event("error", 0, "", "", NoTime))
    /\ pc' = "query_messages"
    /\ UNCHANGED <<now, storeVars, postVars, presenceVars, ghostVars, typingVars, requestVars, localVars>>

\* except Exception: the error event, then break
StreamExcept ==
    /\ pc = "except"
    /\ events' = Append(events, Event("error", 0, "", "", NoTime))
    /\ pc' = "done"
    /\ UNCHANGED <<now, storeVars, postVars, presenceVars, ghostVars, typingVars, requestVars, localVars>>

\* the positions at which the generator is suspended: before its first step,
\* at an await of the store or of the sleep, or at a yield
Suspended ==
    {"start", "query_messages", "emit_messages", "emit_presence", "emit_members",
     "sleep"}

\* the cancellation caught by the handler, as `except BaseException` would
Disconnect_Caught ==
    /\ pc \in Suspended
    /\ response' = "closed"
    /\ pc' = "except"
    /\ UNCHANGED <<now, storeVars, postVars, presenceVars, ghostVars, typingVars,
                   community_id, channel_id, after, x_user_id, localVars, events>>

\* the client closes the connection: the StreamingResponse cancels the task
\* that iterates event_generator; CancelledError (at an await) or GeneratorExit
\* (at a yield) is raised in the try block, neither is an Exception, so the
\* handler is passed by and the generator ends
Disconnect ==
    /\ pc \in Suspended
    /\ response' = "closed"
    /\ pc' = "done"
    /\ UNCHANGED <<now, storeVars, postVars, presenceVars, ghostVars, typingVars,
                   community_id, channel_id, after, x_user_id, localVars, events>>

\* ----------------------------------------------------------------- typing
TypingKey(r) == <<r.user_id, r.channel_id>>

\* the upsert filtered by user_id only: one record per user
TypingStart_KeyedByUser(u, ch) ==
    /\ community_exists
    /\ u \in members
    /\ ch \in channels
    /\ u \in users
    /\ typing_indicators' =
           {r \in typing_indicators : r.user_id # u} \cup
           {[user_id |-> u, channel_id |-> ch, started_at |-> now,
             expires_at |-> now + TypingTTL]}
    /\ UNCHANGED <<now, storeVars, postVars, presenceVars, ghostVars, typing_req, typing_result, streamVars>>

\* send_typing_indicator with typing = true: the upsert keyed by
\* (user_id, community_id, channel_id)
TypingStart(u, ch) ==
    /\ community_exists
    /\ u \in members
    /\ ch \in channels
    /\ u \in users
    /\ typing_indicators' =
           {r \in typing_indicators : TypingKey(r) # <<u, ch>>} \cup
           {[user_id |-> u, channel_id |-> ch, started_at |-> now,
             expires_at |-> now + TypingTTL]}
    /\ UNCHANGED <<now, storeVars, postVars, presenceVars, ghostVars, typing_req, typing_result, streamVars>>

\* send_typing_indicator with typing = false: delete_one of the key
TypingStop(u, ch) ==
    /\ community_exists
    /\ u \in members
    /\ ch \in channels
    /\ u \in users
    /\ typing_indicators' = {r \in typing_indicators : TypingKey(r) # <<u, ch>>}
    /\ UNCHANGED <<now, storeVars, postVars, presenceVars, ghostVars, typing_req, typing_result, streamVars>>

\* delete_many({"expires_at": {"$lt": utcnow()}})
Expired(r, t) == r.expires_at < t

\* the purge restricted to the channel of the request
ListTypingPurge_ChannelOnly(u, ch) ==
    /\ typing_req.caller = "none"
    /\ community_exists
    /\ u \in members
    /\ ch \in channels
    /\ typing_indicators' =
           {r \in typing_indicators : ~(Expired(r, now) /\ r.channel_id = ch)}
    /\ typing_req' = [caller |-> u, channel |-> ch]
    /\ UNCHANGED <<now, storeVars, postVars, presenceVars, ghostVars, typing_result, streamVars>>

\* get_typing_indicators up to its find: the checks and the purge
ListTypingPurge(u, ch) ==
    /\ typing_req.caller = "none"
    /\ community_exists
    /\ u \in members
    /\ ch \in channels
    /\ typing_indicators' = {r \in typing_indicators : ~Expired(r, now)}
    /\ typing_req' = [caller |-> u, channel |-> ch]
    /\ UNCHANGED <<now, storeVars, postVars, presenceVars, ghostVars, typing_result, streamVars>>

\* get_typing_indicators: the find of the channel's records of other users,
\* and the response
ListTypingFind ==
    /\ typing_req.caller # "none"
    /\ typing_result' =
           [caller |-> typing_req.caller, channel |-> typing_req.channel,
            at |-> now,
            records |-> {r \in typing_indicators :
                            /\ r.channel_id = typing_req.channel
                            /\ r.user_id # typing_req.caller}]
    /\ typing_req' = [caller |-> "none", channel |-> NoChannel]
    /\ UNCHANGED <<now, storeVars, postVars, presenceVars, ghostVars, typing_indicators, streamVars>>

\* --------------------------------------------------------- specifications
\* the steps of the generator every cycle takes
StreamCycle ==
    \/ StreamStart
    \/ StreamQueryMessages
    \/ StreamQueryPresence
    \/ StreamReadCommunity
    \/ StreamHeartbeat
    \/ StreamWake
    \/ StreamStoreFailure
    \/ StreamExcept

\* one connection of u1 on the community, a member who sets presence and
\* sends messages, a user who joins and a member who leaves
Next ==
    \/ Tick(MaxCycleTime)
    \/ next_post_id <= MaxCyclePosts /\ SendMessage("u2", "ch1")
    \/ InsertPost
    \/ SetPresence("u2", "online")
    \/ MayRequest(MaxPending) /\ JoinCheck("u3")
    \/ JoinUpdate("u3")
    \/ MayRequest(MaxPending) /\ LeaveCheck("u2")
    \/ LeaveUpdate("u2")
    \/ StreamOpen(CommunityId, NoChannel, NoCursor, "u1")
    \/ StreamStart
    \/ StreamQueryMessages
    \/ StreamEmitMessage
    \/ StreamQueryPresence
    \/ StreamEmitPresence
    \/ StreamReadCommunity
    \/ StreamEmitJoin
    \/ StreamEmitLeave
    \/ StreamHeartbeat
    \/ StreamWake

Spec == Init /\ [][Next]_vars

\* one connection, a member who sends messages and sets presence, the store
\* that fails, the creator who deletes the account and with it the community
NextFailure ==
    \/ Tick(MaxCycleTime)
    \/ next_post_id <= MaxCyclePosts /\ SendMessage("u2", "ch1")
    \/ InsertPost
    \/ \E s \in {"online", "away"} : SetPresence("u2", s)
    \/ DeleteUserRecord("u1")
    \/ DeleteUserPull("u1")
    \/ DeleteUserOwned("u1")
    \/ StreamOpen(CommunityId, NoChannel, NoCursor, "u1")
    \/ StreamEmitMessage
    \/ StreamEmitPresence
    \/ StreamCycle

SpecFailure == Init /\ [][NextFailure]_vars

\* one connection, scoped to a channel or not, and the messages of the members
NextMessages ==
    \/ Tick(MaxTime)
    \/ next_post_id <= MaxStreamPosts /\ \E ch \in Channels : SendMessage("u2", ch)
    \/ InsertPost
    \/ \E ch \in {NoChannel, "ch1"} : StreamOpen(CommunityId, ch, NoCursor, "u1")
    \/ StreamEmitMessage
    \/ StreamCycle

SpecMessages == Init /\ [][NextMessages]_vars

\* one connection on the whole community and more messages than one query
\* of the stream returns
NextOverflow ==
    \/ Tick(MaxTime)
    \/ SendMessage("u2", "ch1")
    \/ InsertPost
    \/ StreamOpen(CommunityId, NoChannel, NoCursor, "u1")
    \/ StreamEmitMessage
    \/ StreamCycle

SpecOverflow == Init /\ [][NextOverflow]_vars

\* one connection, the users who join and leave, one of whom deletes the account
NextMembers ==
    \/ Tick(MaxTime)
    \/ MayRequest(MaxPending) /\ JoinCheck("u3")
    \/ JoinUpdate("u3")
    \/ MayRequest(MaxPending) /\ \E u \in {"u2", "u3"} : LeaveCheck(u)
    \/ \E u \in {"u2", "u3"} : LeaveUpdate(u)
    \/ DeleteUserRecord("u3")
    \/ DeleteUserPull("u3")
    \/ DeleteUserOwned("u3")
    \/ StreamOpen(CommunityId, NoChannel, NoCursor, "u1")
    \/ StreamEmitJoin
    \/ StreamEmitLeave
    \/ StreamCycle

SpecMembers == Init /\ [][NextMembers]_vars

\* the stream request with every kind of community id and caller, against a
\* community whose members change and that can be deleted
NextOpen ==
    \/ MayRequest(MaxPending) /\ JoinCheck("u3")
    \/ JoinUpdate("u3")
    \/ MayRequest(MaxPending) /\ \E u \in {"u2", "u3"} : LeaveCheck(u)
    \/ \E u \in {"u2", "u3"} : LeaveUpdate(u)
    \/ DeleteUserRecord("u1")
    \/ DeleteUserPull("u1")
    \/ DeleteUserOwned("u1")
    \/ \E cid \in CommunityIds, ch \in {NoChannel, "ch1"}, u \in UserIds :
           StreamOpen(cid, ch, NoCursor, u)
    \/ StreamStart
    \/ StreamQueryMessages
    \/ StreamQueryPresence
    \/ StreamReadCommunity
    \/ StreamHeartbeat
    \/ StreamExcept

SpecOpen == Init /\ [][NextOpen]_vars

\* the typing registry and its readers
NextTyping ==
    \/ Tick(MaxTypingTime)
    \/ \E u \in {"u1", "u2"}, ch \in Channels : TypingStart(u, ch)
    \/ \E u \in {"u1", "u2"}, ch \in Channels : TypingStop(u, ch)
    \/ \E u \in {"u1", "u2"}, ch \in Channels : ListTypingPurge(u, ch)
    \/ ListTypingFind

SpecTyping == Init /\ [][NextTyping]_vars

\* the typing registry written by two members in two channels
NextTypingKeys ==
    \/ Tick(MaxTypingTime)
    \/ \E u \in {"u1", "u2"}, ch \in Channels : TypingStart(u, ch)
    \/ \E u \in {"u1", "u2"}, ch \in Channels : TypingStop(u, ch)

SpecTypingKeys == Init /\ [][NextTypingKeys]_vars

\* the typing registry written by two members and read by one of them
NextTypingList ==
    \/ Tick(MaxTypingTime)
    \/ \E u \in {"u1", "u2"}, ch \in Channels : TypingStart(u, ch)
    \/ TypingStop("u2", "ch1")
    \/ \E ch \in Channels : ListTypingPurge("u1", ch)
    \/ ListTypingFind

SpecTypingList == Init /\ [][NextTypingList]_vars

\* Set presence of two users by two callers, one of the users deleting the
\* account
NextPresenceOwner ==
    \/ Tick(MaxTime)
    \/ \E caller \in {"u1", "u2"}, u \in {"u2", "u3"}, s \in {"online", "away"} :
           update_user_presence(caller, u, s)
    \/ DeleteUserRecord("u3")

SpecPresenceOwner == Init /\ [][NextPresenceOwner]_vars

\* the presence of one user, read by requests that run concurrently and set
\* online by its owner
NextPresenceRead ==
    \/ Tick(MaxCycleTime)
    \/ Len(get_pending["u2"]) < MaxReads /\ GetPresenceFind("u2")
    \/ GetPresenceInsert("u2")
    \/ SetPresence("u2", "online")

SpecPresenceRead == Init /\ [][NextPresenceRead]_vars

\* the presence summary of the community asked by members and others, while
\* members set their presence and users join and leave
NextSummary ==
    \/ \E s \in Statuses : SetPresence("u2", s)
    \/ SetPresence("u1", "online")
    \/ MayRequest(MaxPending) /\ JoinCheck("u3")
    \/ JoinUpdate("u3")
    \/ MayRequest(MaxPending) /\ LeaveCheck("u2")
    \/ LeaveUpdate("u2")
    \/ \E cid \in CommunityIds, caller \in UserIds : get_community_presence(cid, caller)

SpecSummary == Init /\ [][NextSummary]_vars

\* one connection, a user who joins and leaves and a member who leaves and
\* joins again
NextChurn ==
    \/ Tick(MaxCycleTime)
    \/ MayRequest(MaxPending) /\ \E u \in {"u2", "u3"} : JoinCheck(u)
    \/ \E u \in {"u2", "u3"} : JoinUpdate(u)
    \/ MayRequest(MaxPending) /\ \E u \in {"u2", "u3"} : LeaveCheck(u)
    \/ \E u \in {"u2", "u3"} : LeaveUpdate(u)
    \/ StreamOpen(CommunityId, NoChannel, NoCursor, "u1")
    \/ StreamStart
    \/ StreamQueryMessages
    \/ StreamQueryPresence
    \/ StreamReadCommunity
    \/ StreamEmitJoin
    \/ StreamEmitLeave
    \/ StreamHeartbeat
    \/ StreamWake

SpecChurn == Init /\ [][NextChurn]_vars

\* one connection opened with or without an after-cursor, and the messages of
\* a member, fewer than one query returns
NextCursor ==
    \/ Tick(MaxTime)
    \/ next_post_id <= MaxStreamPosts /\ SendMessage("u2", "ch1")
    \/ InsertPost
    \/ \E aft \in {NoCursor, 1} : StreamOpen(CommunityId, NoChannel, aft, "u1")
    \/ StreamStart
    \/ StreamQueryMessages
    \/ StreamEmitMessage
    \/ StreamQueryPresence
    \/ StreamReadCommunity
    \/ StreamHeartbeat
    \/ StreamWake

SpecCursor == Init /\ [][NextCursor]_vars

\* one connection of a member who leaves the community while it is open;
\* once that member has left, the creator sends a message and sets presence
\* and a user joins
NextOwnLeave ==
    \/ Tick(MaxCycleTime)
    \/ /\ x_user_id \in UserIds \ members
       /\ next_post_id <= MaxCyclePosts
       /\ SendMessage("u1", "ch1")
    \/ InsertPost
    \/ x_user_id \in UserIds \ members /\ SetPresence("u1", "online")
    \/ x_user_id \in UserIds \ members /\ MayRequest(MaxPending) /\ JoinCheck("u3")
    \/ JoinUpdate("u3")
    \/ MayRequest(MaxPending) /\ LeaveCheck("u2")
    \/ LeaveUpdate("u2")
    \/ StreamOpen(CommunityId, NoChannel, NoCursor, "u2")
    \/ StreamStart
    \/ StreamQueryMessages
    \/ StreamEmitMessage
    \/ StreamQueryPresence
    \/ StreamEmitPresence
    \/ StreamReadCommunity
    \/ StreamEmitJoin
    \/ StreamEmitLeave
    \/ StreamHeartbeat
    \/ StreamWake

SpecOwnLeave == Init /\ [][NextOwnLeave]_vars

\* one connection and the calls of the users: presence set with any status and
\* read, typing, join, leave, messages, each made while the stream is open; no
\* disconnect, no deletion, no store failure
NextUserCalls ==
    \/ Tick(MaxCycleTime)
    \/ \E s \in Statuses : SetPresence("u2", s)
    \/ pc = "emit_messages" /\ GetPresence("u2")
    \/ pc = "query_messages" /\ TypingStart("u2", "ch1")
    \/ pc = "query_messages" /\ TypingStop("u2", "ch1")
    \/ next_post_id <= MaxCyclePosts /\ SendMessage("u2", "ch1")
    \/ InsertPost
    \/ pc = "emit_presence" /\ MayRequest(MaxPending) /\ JoinCheck("u3")
    \/ JoinUpdate("u3")
    \/ pc = "emit_presence" /\ MayRequest(MaxPending) /\ LeaveCheck("u3")
    \/ LeaveUpdate("u3")
    \/ StreamOpen(CommunityId, NoChannel, NoCursor, "u1")
    \/ StreamStart
    \/ StreamQueryMessages
    \/ StreamEmitMessage
    \/ StreamQueryPresence
    \/ StreamEmitPresence
    \/ StreamReadCommunity
    \/ StreamEmitJoin
    \/ StreamEmitLeave
    \/ StreamHeartbeat
    \/ StreamWake
    \/ StreamExcept

SpecUserCalls == Init /\ [][NextUserCalls]_vars

\* the join, join-by-invite and leave requests of two users, three of them at a
\* time between their checks and their write
NextCount ==
    \/ MayRequest(MaxConcurrent) /\ \E u \in {"u2", "u3"} : JoinCheck(u)
    \/ MayRequest(MaxConcurrent) /\ \E u \in {"u2", "u3"} : JoinByInviteCheck(u)
    \/ \E u \in {"u2", "u3"} : JoinUpdate(u)
    \/ MayRequest(MaxConcurrent) /\ \E u \in {"u2", "u3"} : LeaveCheck(u)
    \/ \E u \in {"u2", "u3"} : LeaveUpdate(u)

SpecCount == Init /\ [][NextCount]_vars

\* the presence of one user, set and read
NextPresence ==
    \/ Tick(MaxTime)
    \/ \E s \in Statuses : SetPresence("u2", s)
    \/ \E u \in {"u2", "u3"} : GetPresence(u)

SpecPresence == Init /\ [][NextPresence]_vars

\* one connection, a member and a joining user who set presence, a member
\* whose presence is only read
NextPresenceStream ==
    \/ Tick(MaxCycleTime)
    \/ \E u \in {"u2", "u3"} : SetPresence(u, "online")
    \/ GetPresence("u1")
    \/ MayRequest(MaxPending) /\ JoinCheck("u3")
    \/ JoinUpdate("u3")
    \/ StreamOpen(CommunityId, NoChannel, NoCursor, "u1")
    \/ StreamStart
    \/ StreamQueryMessages
    \/ StreamQueryPresence
    \/ StreamEmitPresence
    \/ StreamReadCommunity
    \/ StreamEmitJoin
    \/ StreamHeartbeat
    \/ StreamWake

SpecPresenceStream == Init /\ [][NextPresenceStream]_vars

\* one connection of a member, a member who sets presence, the creator who
\* deletes the community
NextDelete ==
    \/ Tick(MaxTime)
    \/ SetPresence("u2", "online")
    \/ \E u \in {"u1", "u2"} : DeleteCommunity(u)
    \/ StreamOpen(CommunityId, NoChannel, NoCursor, "u2")
    \/ StreamStart
    \/ StreamQueryMessages
    \/ StreamQueryPresence
    \/ StreamEmitPresence
    \/ StreamReadCommunity
    \/ StreamHeartbeat
    \/ StreamWake
    \/ StreamExcept

SpecDelete == Init /\ [][NextDelete]_vars

\* one connection scoped to a channel, the messages of a member in it, the
\* creator who deletes the channel
NextChannel ==
    \/ Tick(MaxCycleTime)
    \/ next_post_id <= MaxCyclePosts /\ SendMessage("u2", "ch2")
    \/ InsertPost
    \/ DeleteChannel("u1", "ch2")
    \/ StreamOpen(CommunityId, "ch2", NoCursor, "u2")
    \/ StreamStart
    \/ StreamQueryMessages
    \/ StreamEmitMessage
    \/ StreamQueryPresence
    \/ StreamReadCommunity
    \/ StreamHeartbeat
    \/ StreamWake

SpecChannel == Init /\ [][NextChannel]_vars

\* one connection, a member who sends messages and deletes the account, a
\* member who sets presence
NextAuthor ==
    \/ Tick(MaxCycleTime)
    \/ next_post_id <= MaxStreamPosts /\ SendMessage("u2", "ch1")
    \/ InsertPost
    \/ DeleteUserRecord("u2")
    \/ DeleteUserPull("u2")
    \/ DeleteUserOwned("u2")
    \/ SetPresence("u1", "online")
    \/ StreamOpen(CommunityId, NoChannel, NoCursor, "u1")
    \/ StreamStart
    \/ StreamQueryMessages
    \/ StreamEmitMessage
    \/ StreamQueryPresence
    \/ StreamEmitPresence
    \/ StreamReadCommunity
    \/ StreamEmitLeave
    \/ StreamHeartbeat
    \/ StreamWake

SpecAuthor == Init /\ [][NextAuthor]_vars

\* one connection, the messages of a member, the store that fails, the client
\* that closes the connection
NextDisconnect ==
    \/ Tick(MaxTime)
    \/ next_post_id <= MaxCyclePosts /\ SendMessage("u2", "ch1")
    \/ InsertPost
    \/ StreamOpen(CommunityId, NoChannel, NoCursor, "u1")
    \/ StreamEmitMessage
    \/ StreamCycle
    \/ Disconnect

SpecDisconnect == Init /\ [][NextDisconnect]_vars

\* ------------------------------------------------------------- properties
\* positions in the event log of the message events that carry a post
MessageEvents == {i \in DOMAIN events : events[i].type = "message" /\ events[i].ref # 0}

EventsOf(type, c) ==
    {i \in DOMAIN events : events[i].type = type /\ events[i].cycle = c}

Emitted(id) == \E i \in MessageEvents : events[i].ref = id

\* utcnow() of the connected event: the first checkpoint
OpenedAt == events[1].at

CycleCompleted(c) == EventsOf("heartbeat", c) # {}

Rank(type) ==
    CASE type = "message" -> 1
      [] type = "presence" -> 2
      [] type = "user_join" -> 3
      [] type = "user_leave" -> 3
      [] type = "heartbeat" -> 4
      [] OTHER -> 5

\* C1: in every completed poll cycle the events come in the order message,
\* presence, user_join/user_leave, heartbeat: no event of an earlier kind
\* follows an event of a later kind of the same cycle.
C1_CycleOrder ==
    \A i, j \in DOMAIN events :
        (/\ i < j
         /\ events[i].cycle = events[j].cycle
         /\ events[i].cycle >= 1
         /\ CycleCompleted(events[i].cycle))
        => Rank(events[i].type) <= Rank(events[j].type)

\* a completed cycle that emitted a message, a presence, a join and a leave
C1_Witness ==
    \E c \in 1..MaxCycles :
        /\ CycleCompleted(c)
        /\ EventsOf("message", c) # {}
        /\ EventsOf("presence", c) # {}
        /\ EventsOf("user_join", c) # {}

\* the posts of the stream's scope
InScope(p) == channel_id # NoChannel => p.channel_id = channel_id

\* C2: every message created in the stream's scope after the stream was
\* opened is emitted: once a cycle has completed, every stored message of the
\* scope created after the open and not after the checkpoint has been emitted
\* (a later cycle only asks for messages newer than the checkpoint).
C2_EveryMessageEmitted ==
    pc = "sleep" =>
        \A p \in posts :
            (/\ InScope(p)
             /\ p.created_at > OpenedAt
             /\ p.created_at <= last_check)
            => Emitted(p.id)

\* C3: on one connection no message is emitted more than once.
C3_NoReEmission ==
    \A i, j \in MessageEvents : events[i].ref = events[j].ref => i = j

\* a message emitted in the first cycle, a second cycle that emitted another
\* message and completed
C3_Witness ==
    /\ pc = "sleep"
    /\ cycle = 2
    /\ \E i, j \in MessageEvents : events[i].cycle = 1 /\ events[j].cycle = 2

\* C4: a cycle emits at most the ceiling of message events, and every message
\* newer than the checkpoint that the ceiling cut off from a cycle has been
\* emitted when the following cycle has completed.
C4_OverflowDelivered ==
    /\ \A c \in 1..MaxCycles :
           Cardinality(MessageEvents \cap EventsOf("message", c)) <= MessageLimit
    /\ pc = "sleep" =>
           \A o \in overflow : o.cycle < cycle => Emitted(o.post.id)

\* C5: the message events of one connection are emitted in non-decreasing
\* order of creation time, within a cycle and across cycles.
C5_CreationOrder ==
    \A i, j \in MessageEvents : i < j => events[i].at <= events[j].at

\* two messages of different creation times emitted in one cycle, after a
\* message emitted in an earlier cycle
C5_Witness ==
    \E i, j, k \in MessageEvents :
        /\ i < j /\ j < k
        /\ events[i].cycle < events[j].cycle
        /\ events[j].cycle = events[k].cycle
        /\ events[j].at < events[k].at

\* C6: when a step of a cycle raises, the stream emits one error event and
\* terminates: the error event is the last event, there is one, no cycle runs
\* after it; and the stream ends that way only.
C6_ErrorTerminates ==
    /\ \A i \in DOMAIN events :
           events[i].type = "error" => i = Len(events) /\ pc = "done"
    /\ pc = "done" => events # <<>> /\ events[Len(events)].type = "error"

\* a stream that ended with an error event in a cycle that had emitted events
C6_Witness ==
    /\ pc = "done"
    /\ Len(events) >= 3
    /\ events[Len(events)].type = "error"
    /\ events[Len(events) - 1].cycle = events[Len(events)].cycle

\* C7: the stream request fails before any response stream and before any
\* event when the community id is malformed (400), when the community does not
\* exist (404), when the caller is not in its member set (403); a stream is
\* opened only for a caller who is a member at the time of the check.
C7_OpenRejects ==
    /\ [](pc = "rejected" => events = <<>> /\ response \in {"400", "404", "403"})
    /\ [][(pc = "idle" /\ pc' # "idle") =>
            LET malformed == ~IsValidObjectId(community_id')
                missing == ~(community_id' = CommunityId /\ community_exists)
                outsider == x_user_id' \notin members
            IN  /\ events' = <<>>
                /\ malformed => pc' = "rejected" /\ response' = "400"
                /\ (~malformed /\ missing) => pc' = "rejected" /\ response' = "404"
                /\ (~malformed /\ ~missing /\ outsider) =>
                       pc' = "rejected" /\ response' = "403"
                /\ pc' = "start" =>
                       ~malformed /\ ~missing /\ ~outsider /\ response' = "stream"
         ]_vars

\* a former member is refused the stream of the community
C7_Witness ==
    /\ pc = "rejected"
    /\ response = "403"
    /\ community_id = CommunityId
    /\ x_user_id = "u2"

JoinedIn(c) == {events[i].user : i \in EventsOf("user_join", c)}

LeftIn(c) == {events[i].user : i \in EventsOf("user_leave", c)}

\* C8: the joins a cycle computes are the ids of the current member set that
\* are not in the snapshot of the previous cycle, the leaves are the ids of the
\* snapshot that are not in the current set; every leave gets its event, every
\* join event is for a join, no join or leave event is made for an id in both,
\* and the snapshot changes only when the cycle replaces it.
C8_MembershipDelta ==
    /\ [](pc = "emit_members" =>
            /\ LeftIn(cycle) \cup left_members = current_community \ updated_community
            /\ JoinedIn(cycle) \cup new_members
                   \subseteq updated_community \ current_community
            /\ \A u \in current_community \cap updated_community :
                   u \notin JoinedIn(cycle) \cup LeftIn(cycle))
    /\ [][(pc = "emit_presence" /\ pc' = "emit_members") =>
            /\ new_members' = members \ current_community
            /\ left_members' = current_community \ members]_vars
    /\ [][(pc = "emit_members" /\ pc' = "sleep") =>
            /\ LeftIn(cycle) = current_community \ current_community'
            /\ Cardinality(EventsOf("user_leave", cycle)) = Cardinality(LeftIn(cycle))
            /\ JoinedIn(cycle) \subseteq current_community' \ current_community]_vars
    /\ [][current_community' # current_community =>
            \/ pc = "idle"
            \/ pc = "emit_members" /\ pc' = "sleep"
                 /\ current_community' = updated_community]_vars

\* previous {u1, u2}, current {u1, u3}: a cycle told the join of u3 and the
\* leave of u2
C8_Witness ==
    /\ pc = "sleep"
    /\ current_community = {"u1", "u3"}
    /\ "u3" \in JoinedIn(cycle)
    /\ "u2" \in LeftIn(cycle)

\* C9: for every id of the current member set that is not in the previous
\* snapshot the cycle emits exactly one user_join event, also when the id has
\* no user record.
C9_EveryJoinEmitted ==
    pc = "emit_members" =>
        /\ JoinedIn(cycle) \cup new_members = updated_community \ current_community
        /\ Cardinality(EventsOf("user_join", cycle)) = Cardinality(JoinedIn(cycle))

\* C10: List typing never returns a record whose expires_at is at or before
\* the time of the response.
C10_NoExpiredListed ==
    \A r \in typing_result.records : r.expires_at > typing_result.at

\* C11: once every join, join-by-invite and leave request has completed, the
\* member_count of the community is the number of ids in its members.
C11_CountMatchesMembers ==
    (community_exists /\ PendingRequests = 0) =>
        member_count = Cardinality(members)

\* C12: Set presence by the owner succeeds with any of the four statuses,
\* whether or not a record existed, and returns the updated envelope; a
\* following Get presence returns that status with a last-seen and an updated
\* timestamp.
C12_SetThenGet ==
    presence_result.user \in presence_set =>
        /\ presence_result.code = 200
        /\ presence_result.status = user_presence[presence_result.user].status
        /\ presence_result.last_seen # "none"
        /\ presence_result.updated_at # "none"

\* C13: the presence query of a cycle returns the record of every user who is
\* in the member set of the community at that time and whose record has an
\* updated_at greater than the checkpoint, a user who joined since the previous
\* cycle included.
C13_PresenceOfCurrentMembers ==
    [][(pc = "emit_messages" /\ pc' = "emit_presence") =>
          \A u \in members :
              (user_presence[u] # NoRecord /\ user_presence[u].updated_at > last_check)
                  => \E r \in presence_updates' : r.user_id = u]_vars

\* C14: the stream emits no presence event for a user for whom Set presence
\* was never called, whatever has been read of that user's presence.
C14_NoEventWithoutSet ==
    \A i \in DOMAIN events :
        events[i].type = "presence" => events[i].user \in presence_set

\* the stream is open and its running cycle, or its next one, has yet to
\* re-read the community
BeforeRead == pc \in {"sleep", "query_messages", "emit_messages", "emit_presence"}

\* C15: when the community is deleted while a stream on it is open, the next
\* cycle that re-reads the community emits one error event and the stream
\* terminates: from a deletion seen before a re-read on, no further heartbeat is
\* emitted, and a stream that ended has an error event as its last event, and
\* no other error event.
C15_DeletedCommunityEnds ==
    /\ [](pc = "done" =>
            /\ events[Len(events)].type = "error"
            /\ \A i \in 1..(Len(events) - 1) : events[i].type # "error")
    /\ \A n \in 0..MaxCycles :
           []((~community_exists /\ BeforeRead /\ Heartbeats = n)
                  => [](Heartbeats = n))

\* a stream that completed a cycle, then found the community deleted and ended
C15_Witness ==
    /\ ~community_exists
    /\ pc = "done"
    /\ Heartbeats >= 1
    /\ events[Len(events)].type = "error"

\* C16: when the channel a stream is scoped to is deleted while the stream is
\* open, the stream terminates within a bounded number of cycles: after the
\* deletion it completes the cycle it is in at most, it does not go on to
\* complete further cycles with a heartbeat each.
C16_DeletedChannelEnds ==
    gone_at # NoTime => Heartbeats <= gone_at + 1

\* C17: a detected message whose author has no user record is emitted as a
\* message event with author name "Unknown User", the cycle goes on, and no
\* error event is emitted because of it.
C17_UnknownAuthorEmitted ==
    /\ [](pc # "except" /\ \A i \in DOMAIN events : events[i].type # "error")
    /\ [][(/\ pc = "emit_messages"
           /\ new_messages # <<>>
           /\ Head(new_messages).author_id \notin users
           /\ <<pc, new_messages, events>>' # <<pc, new_messages, events>>)
          => /\ pc' = pc
             /\ new_messages' = Tail(new_messages)
             /\ Len(events') = Len(events) + 1
             /\ events'[Len(events')].type = "message"
             /\ events'[Len(events')].ref = Head(new_messages).id
             /\ events'[Len(events')].name = "Unknown User"]_vars

\* a message of a deleted author emitted as of Unknown User, then another
\* message, a leave event and the heartbeat of the same cycle
C17_Witness ==
    \E i, j, k, l \in DOMAIN events :
        /\ i < j /\ j < k /\ k < l
        /\ events[i].type = "message" /\ events[i].name = "Unknown User"
        /\ events[j].type = "message"
        /\ events[k].type = "user_leave"
        /\ events[l].type = "heartbeat"
        /\ events[l].cycle = events[i].cycle

\* the connected events
Connected == {i \in DOMAIN events : events[i].name = "connected"}

\* C18: on a stream that was opened, the first event is the connected event;
\* it is emitted once, before any event of the first poll cycle.
C18_ConnectedFirst ==
    /\ pc \notin {"idle", "rejected", "start"} => events # <<>>
    /\ events # <<>> => Connected = {1} /\ events[1].cycle = 0
    /\ \A i \in DOMAIN events : i > 1 => events[i].cycle >= 1

\* the connected event followed by an event of the first cycle
C18_Witness ==
    /\ Len(events) >= 2
    /\ events[1].name = "connected"
    /\ events[2].cycle = 1

\* cycle c has run to its end without an exception: the generator sleeps
\* after it, or has woken up and is about to begin the next one
Finished(c) == cycle > c \/ (cycle = c /\ pc \in {"sleep", "query_messages"})

C20_MonotonicCheckpoint ==
    /\ [][last_check' >= last_check]_vars
    /\ [][last_check' # last_check =>
              \/ pc = "start" /\ pc' = "query_messages"
              \/ pc = "emit_members" /\ pc' = "sleep"]_vars

\* a second cycle that runs on a checkpoint later than the one of the first
C20_Witness ==
    /\ cycle = 2
    /\ events # <<>>
    /\ last_check > events[1].at

RecordsOf(registry, k) == {r \in registry : TypingKey(r) = k}

TypingKeys == {"u1", "u2", "u3"} \X Channels

\* C22: typing records are keyed by user and channel of the community: there
\* is at most one record per key; a typing start or stop changes the records
\* of one key only and leaves every other record as it was; after a start the
\* key has one record, started now and expiring TypingTTL later; after a stop
\* it has none.
C22_OneRecordPerKey ==
    /\ [](\A k \in TypingKeys : Cardinality(RecordsOf(typing_indicators, k)) <= 1)
    /\ [][typing_indicators' # typing_indicators =>
            \E k \in TypingKeys :
                /\ \A j \in TypingKeys \ {k} :
                       RecordsOf(typing_indicators', j) = RecordsOf(typing_indicators, j)
                /\ \/ RecordsOf(typing_indicators', k) = {}
                   \/ RecordsOf(typing_indicators', k) =
                          {[user_id |-> k[1], channel_id |-> k[2],
                            started_at |-> now, expires_at |-> now + TypingTTL]}]_vars

\* one user has a record in each of the two channels, started at different
\* times, neither touched by the start or the earlier stops of the other
C22_Witness ==
    \E r1, r2 \in typing_indicators :
        /\ r1.user_id = "u1" /\ r2.user_id = "u1"
        /\ r1.channel_id = "ch1" /\ r2.channel_id = "ch2"
        /\ r1.started_at = 1 /\ r2.started_at = 3
        /\ now = 3

\* C23: List typing first deletes, in every channel, the records whose
\* expires_at lies before the time of the call and no other record, the
\* caller's included; it then returns exactly the records left in the store
\* for the requested channel whose user is not the caller, and deletes nothing
\* more.
C23_PurgeThenOthers ==
    /\ [][(typing_req.caller = "none" /\ typing_req'.caller # "none") =>
            /\ \A r \in typing_indicators :
                   r \in typing_indicators' <=> r.expires_at >= now
            /\ typing_indicators' \subseteq typing_indicators]_vars
    /\ [][(typing_req.caller # "none" /\ typing_req'.caller = "none") =>
            /\ typing_indicators' = typing_indicators
            /\ \A r \in typing_indicators :
                   r \in typing_result'.records <=>
                       (r.channel_id = typing_req.channel /\ r.user_id # typing_req.caller)
            /\ typing_result'.records \subseteq typing_indicators]_vars
    /\ [](\A r \in typing_result.records : r.user_id # typing_result.caller)

\* a response that lists another user while the caller's own record of the
\* channel is in the store, at a time by which records of the first second
\* have expired, and a record of the other channel has outlived the purge
C23_Witness ==
    /\ typing_result.at = now
    /\ now > TypingTTL
    /\ typing_result.records # {}
    /\ \E r \in typing_indicators :
           r.user_id = typing_result.caller /\ r.channel_id = typing_result.channel
    /\ \E r \in typing_indicators : r.channel_id # typing_result.channel

\* a Set presence response to a caller other than the user
ByOther(r) == r.op = "set" /\ r.caller # r.user

\* C24: Set presence by a caller whose identity differs from the target user id
\* fails with Forbidden.
C24_OtherCallerForbidden ==
    ByOther(presence_result) => presence_result.code = 403

\* C24, amended: Set presence by a caller other than the target user fails,
\* with Forbidden when the target has a user record and with Not Found when it
\* has none, and the step leaves the presence store as it was.
C24_OtherCallerRejected ==
    /\ [][ByOther(presence_result') => user_presence' = user_presence]_vars
    /\ [][(ByOther(presence_result') /\ presence_result' # presence_result) =>
            presence_result'.code =
                IF presence_result'.user \in users THEN 403 ELSE 404]_vars

\* a call by another user was answered Forbidden while the target holds the
\* record its owner had set
C24_Witness ==
    /\ ByOther(presence_result)
    /\ presence_result.code = 403
    /\ presence_result.user \in presence_set
    /\ user_presence[presence_result.user].status = "away"
    /\ user_presence[presence_result.user].updated_at < now

\* the presence records the store holds for a user
PresenceRecords(u) ==
    (IF user_presence[u] = NoRecord THEN 0 ELSE 1) + Len(presence_extra[u])

\* C25: for a user with no presence record Get presence answers offline and
\* creates the default record; once the owner has set online, the record is
\* online with a last_seen of the time of that call, Get presence answers with
\* the status of the record, and the store holds exactly one presence record
\* of the user.
C25_ReadThroughDefault ==
    \A u \in UserIds :
        /\ (presence_result.op = "get" /\ presence_result.user = u) =>
               /\ presence_result.code = 200
               /\ PresenceRecords(u) = 1
               /\ u \notin presence_set =>
                      /\ presence_result.status = "offline"
                      /\ user_presence[u].status = "offline"
        /\ user_presence[u].status = "online" =>
               /\ user_presence[u].last_seen = user_presence[u].updated_at
               /\ PresenceRecords(u) = 1

\* C26: the community presence summary asked by a member returns a map with
\* one entry per member id, offline for every member without a presence
\* record, total_count the number of members, online_count the number of
\* members whose stored status is online, which never exceeds total_count; it
\* rejects a caller who is not a member.
C26_SummaryOfMembers ==
    [][presence_summary' # presence_summary =>
        IF /\ presence_summary'.community = CommunityId
           /\ community_exists
           /\ presence_summary'.caller \in members
        THEN presence_summary'.code = 200 /\
             (presence_summary'.code = 200 =>
                /\ DOMAIN presence_summary'.presences = members
                /\ \A u \in members :
                       user_presence[u] = NoRecord =>
                           presence_summary'.presences[u] = "offline"
                /\ presence_summary'.total_count = Cardinality(members)
                /\ presence_summary'.online_count =
                       Cardinality({u \in members : user_presence[u].status = "online"})
                /\ presence_summary'.online_count <= presence_summary'.total_count)
        ELSE presence_summary'.code \in {400, 403, 404}]_vars

\* C27: a user who joined and left again, or left and joined again, between
\* two consecutive reads of the community document by a stream is in neither
\* difference of the cycle and gets no user_join and no user_leave event in it.
C27_ChurnUnseen ==
    pc \in {"emit_members", "sleep"} =>
        \A u \in churned :
            /\ u \notin new_members \cup left_members
            /\ u \notin JoinedIn(cycle) \cup LeftIn(cycle)

\* in the interval before the second cycle u3 joined and left and u2 left and
\* joined again; the cycle has ended and the stream has told no join or leave
C27_Witness ==
    /\ pc = "sleep"
    /\ cycle = 2
    /\ churned = {"u2", "u3"}
    /\ current_community = {"u1", "u2"}
    /\ ~\E i \in DOMAIN events : events[i].type \in {"user_join", "user_leave"}

\* C28: the message query of a cycle selects the messages of the community,
\* and of the channel when the stream is scoped, whose created_at is strictly
\* greater than the checkpoint, or whose id is greater than the after-cursor
\* when one was supplied, in ascending created_at.
C28_QuerySelection ==
    [][(pc = "query_messages" /\ pc' = "emit_messages") =>
        /\ Range(new_messages') =
               {p \in posts :
                   /\ InScope(p)
                   /\ \/ p.created_at > last_check
                      \/ IsValidCursor(after) /\ p.id > after}
        /\ SortedByCreatedAt(new_messages')]_vars

\* C29: the membership of the user of the stream is checked at the open only:
\* when that user leaves while the stream is open, the cycle that reads the
\* change emits a user_leave event for the user; the stream raises no error
\* and does not end, and the queries of its cycles select messages, presence
\* records and joins as before, whether or not the user is still a member.
C29_OwnLeaveKeepsStream ==
    /\ [](pc \notin {"except", "done"})
    /\ [](\A i \in DOMAIN events : events[i].type # "error")
    /\ [][(pc = "emit_members" /\ pc' = "sleep" /\
            x_user_id \in current_community /\ x_user_id \notin current_community') =>
              x_user_id \in LeftIn(cycle)]_vars
    /\ [][(pc = "query_messages" /\ pc' # pc) =>
              /\ pc' = "emit_messages"
              /\ Range(new_messages') = {p \in posts : p.created_at > last_check}]_vars
    /\ [][(pc = "emit_messages" /\ pc' # pc) =>
              /\ pc' = "emit_presence"
              /\ {r.user_id : r \in presence_updates'} =
                     {u \in current_community :
                         user_presence[u].updated_at > last_check}]_vars
    /\ [][(pc = "emit_presence" /\ pc' # pc) =>
              /\ pc' = "emit_members"
              /\ new_members' = members \ current_community]_vars

\* the user of the stream left, a cycle told the leave, and a later cycle
\* emitted a message, a presence update and the join of another user
C29_Witness ==
    /\ pc = "sleep"
    /\ cycle = 2
    /\ x_user_id = "u2"
    /\ x_user_id \notin members
    /\ \E i \in EventsOf("user_leave", 1) : events[i].user = x_user_id
    /\ \E i \in EventsOf("message", 2) : events[i].ref # 0
    /\ EventsOf("presence", 2) # {}
    /\ \E i \in EventsOf("user_join", 2) : events[i].user = "u3"

\* C30: with no client disconnect, no deletion of the community and no failing
\* store query, no sequence of Set presence (any status), Get presence, typing,
\* join, leave and send-message calls makes an open stream raise, emit an
\* error event or end.
C30_UserCallsNeverEndStream ==
    /\ pc \notin {"except", "done"}
    /\ \A i \in DOMAIN events : events[i].type # "error"

====
